---- MODULE Spec2Model ----
(***************************************************************************)
(* Model of sequencer/src/api/data_source.rs: the binding of persistence   *)
(* backend options to data-source types, the construction of a data        *)
(* source, the fetch provider built from a list of peers, the catch-up     *)
(* operations of CatchupDataSource with their default bodies, and the      *)
(* conversion of the HotShot configuration into its public projection.     *)
(*                                                                         *)
(* Three specifications share the module's variables:                      *)
(*   Spec          data-source life cycle and catch-up requests            *)
(*   SpecProvider  provider(peers) and a fetch through it                  *)
(*   SpecConfig    From<HotShotConfig> / From<ValidatorConfig>             *)
(***************************************************************************)
EXTENDS Integers, Sequences, FiniteSets, TLC

VARIABLES
    opt,        \* the backend options the node was configured with
    persisted,  \* the backend's persisted state: one snapshot per decided height
    ds,         \* the data source the node holds (NoDataSource before create)
    created,    \* what the last call of create returned
    reqs,       \* the catch-up futures: slot -> future
    peers,      \* the peer list handed to provider()
    serves,     \* peer -> item -> the content the peer serves (NoContent: none)
    provider_,  \* the Provider built by provider(peers)
    fetch,      \* the fetch in progress through provider_
    config,     \* the node's HotShotConfig
    served      \* the projections get_config has handed out so far

vars == <<opt, persisted, ds, created, reqs, peers, serves, provider_, fetch,
          config, served>>

catchupVars == <<opt, persisted, ds, created, reqs>>
providerVars == <<peers, serves, provider_, fetch>>
configVars == <<config, served>>

(***************************************************************************)
(* Bounds                                                                  *)
(***************************************************************************)
MaxHeight == 1      \* heights 0..MaxHeight can be decided
MaxView == 1        \* views 0..MaxView can be asked for
MaxReqs == 2        \* catch-up futures alive at once
MaxPeers == 2       \* length of the peer list
MaxChanged == 1     \* configuration fields that differ from the base value
MaxServed == 2      \* calls of get_config recorded

Heights == 0..MaxHeight
Views == 0..MaxView
Slots == 1..MaxReqs
Accounts == {"0xa1", "0xa2"}

(***************************************************************************)
(* anyhow::Result                                                          *)
(***************************************************************************)
Ok(v) == [ok |-> TRUE, val |-> v]
Bail(msg) == [ok |-> FALSE, err |-> msg]

MerklizedUnsupported == "merklized state catchup is not supported for this data source"
ChainConfigUnsupported == "chain config catchup is not supported for this data source"
NotFound == "not found"
InitializationFailure == "initialization failure"

\* The errors that say the data source lacks the capability.
IsUnsupported(r) == ~r.ok /\ r.err \in {MerklizedUnsupported, ChainConfigUnsupported}
IsNotFound(r) == ~r.ok /\ r.err = NotFound

(***************************************************************************)
(* Backend options and the data-source type each is bound to               *)
(***************************************************************************)
SqlOptions == "persistence::sql::Options"
FsOptions == "persistence::fs::Options"
BackendOptions == {SqlOptions, FsOptions}
NoQueryOptions == "none"   \* no query module: the node runs a MetricsDataSource

SqlDataSource == "sql::DataSource"
FsDataSource == "fs::DataSource"
MetricsDataSource == "MetricsDataSource"

\* A plausible slip: both impls name the same associated type.
DataSourceOf_bothSql(o) == SqlDataSource

\* <O as DataSourceOptions>::DataSource
DataSourceOf(o) == IF o = SqlOptions THEN SqlDataSource ELSE FsDataSource

\* <D as SequencerDataSource>::Options
OptionsOf(d) == IF d = SqlDataSource THEN SqlOptions ELSE FsOptions

(***************************************************************************)
(* Chain state held by the backend                                         *)
(***************************************************************************)
ChainConfigs == {[chain_id |-> 1], [chain_id |-> 2]}
\* Committable::commit of a chain config: a digest, one per config
Commit(cc) == 100 + cc.chain_id
\* the commitments a caller may ask for; 100 is the digest of no stored config
Commitments == {100} \cup {Commit(cc) : cc \in ChainConfigs}

ZeroBalances == [a \in Accounts |-> 0]

\* The snapshot decided at height h (the store keeps height h at index h+1).
SnapshotAt(store, h) == store[h + 1]
HasSnapshot(store, h) == h + 1 \in 1..Len(store)
LastDecided(store) == Len(store) - 1
KnownChainConfigs(store) == {store[i].cc : i \in 1..Len(store)}

(***************************************************************************)
(* CatchupDataSource: the default bodies                                   *)
(***************************************************************************)
\* A plausible slip: the default serves the genesis account instead of failing.
CatchupDataSource_get_account_genesis(height, view, account) ==
    IF height = 0
    THEN Ok([balance |-> 0, root |-> ZeroBalances])
    ELSE Bail(MerklizedUnsupported)

CatchupDataSource_get_account(height, view, account) ==
    Bail(MerklizedUnsupported)

CatchupDataSource_get_frontier(height, view) ==
    Bail(MerklizedUnsupported)

\* A slip: the default answers as a backend that looked and found nothing.
CatchupDataSource_get_chain_config_notFound(commitment) ==
    Bail(NotFound)

CatchupDataSource_get_chain_config(commitment) ==
    Bail(ChainConfigUnsupported)

(***************************************************************************)
(* CatchupDataSource: the bodies of a backend that stores merklized state  *)
(***************************************************************************)
\* A slip of a storing backend: serving the newest snapshot it holds.
Override_get_account_latest(store, height, view, account) ==
    IF Len(store) = 0
    THEN Bail(NotFound)
    ELSE Ok([balance |-> store[Len(store)].bal[account],
             root |-> store[Len(store)].bal])

Override_get_account(store, height, view, account) ==
    IF HasSnapshot(store, height)
    THEN Ok([balance |-> SnapshotAt(store, height).bal[account],
             root |-> SnapshotAt(store, height).bal])
    ELSE Bail(NotFound)

Override_get_frontier(store, height, view) ==
    IF HasSnapshot(store, height)
    THEN Ok([leaves |-> height + 1])
    ELSE Bail(NotFound)

Override_get_chain_config(store, commitment) ==
    IF \E cc \in KnownChainConfigs(store) : Commit(cc) = commitment
    THEN Ok(CHOOSE cc \in KnownChainConfigs(store) : Commit(cc) = commitment)
    ELSE Bail(NotFound)

\* Whether the data source's impl of CatchupDataSource overrides the defaults.
Overrides(self) == self.catchup = "override"

get_account(self, store, height, view, account) ==
    IF Overrides(self)
    THEN Override_get_account(store, height, view, account)
    ELSE CatchupDataSource_get_account(height, view, account)

get_frontier(self, store, height, view) ==
    IF Overrides(self)
    THEN Override_get_frontier(store, height, view)
    ELSE CatchupDataSource_get_frontier(height, view)

get_chain_config(self, store, commitment) ==
    IF Overrides(self)
    THEN Override_get_chain_config(store, commitment)
    ELSE CatchupDataSource_get_chain_config(commitment)

(***************************************************************************)
(* Catch-up futures                                                        *)
(***************************************************************************)
NoRes == [none |-> TRUE]
Idle == [st |-> "idle", op |-> "none", h |-> 0, v |-> 0, a |-> "-", c |-> 0,
         res |-> NoRes]

AccountReq(h, v, a) == [st |-> "pending", op |-> "get_account", h |-> h, v |-> v,
                        a |-> a, c |-> 0, res |-> NoRes]
FrontierReq(h, v) == [st |-> "pending", op |-> "get_frontier", h |-> h, v |-> v,
                      a |-> "-", c |-> 0, res |-> NoRes]
ChainConfigReq(c) == [st |-> "pending", op |-> "get_chain_config", h |-> 0, v |-> 0,
                      a |-> "-", c |-> c, res |-> NoRes]

Requests ==
    {AccountReq(h, v, a) : h \in Heights, v \in Views, a \in Accounts}
    \cup {FrontierReq(h, v) : h \in Heights, v \in Views}
    \cup {ChainConfigReq(c) : c \in Commitments}

\* What the future of request r resolves to against data source self.
Output(self, store, r) ==
    CASE r.op = "get_account" -> get_account(self, store, r.h, r.v, r.a)
      [] r.op = "get_frontier" -> get_frontier(self, store, r.h, r.v)
      [] r.op = "get_chain_config" -> get_chain_config(self, store, r.c)

NoDataSource == [kind |-> "none", options |-> "none", catchup |-> "none",
                 initialized |-> {}]
NothingCreated == [called |-> FALSE, ok |-> FALSE, reset |-> FALSE,
                   value |-> NoDataSource]

\* The capability groups a SequencerDataSource combines.
Capabilities == {"AvailabilityDataSource", "NodeDataSource", "StatusDataSource",
                 "UpdateDataSource", "VersionedDataSource"}

(***************************************************************************)
(* Data-source life cycle                                                  *)
(***************************************************************************)
InitOutcomes == {"ok", "unreachable", "corrupt"}

\* A slip: the instance under construction escapes when initialization fails.
Create_partial(reset, outcome, impl) ==
    /\ opt \in BackendOptions
    /\ ds = NoDataSource
    /\ persisted' = IF reset /\ outcome # "unreachable" THEN <<>> ELSE persisted
    /\ LET inst == [kind |-> DataSourceOf(opt), options |-> opt, catchup |-> impl,
                    initialized |-> IF outcome = "ok" THEN Capabilities
                                    ELSE {"StatusDataSource"}]
       IN  /\ ds' = inst
           /\ created' = [called |-> TRUE, ok |-> outcome = "ok", reset |-> reset,
                          value |-> inst]
    /\ UNCHANGED <<opt, reqs>>

\* SequencerDataSource::create(opt, provider, reset).  With reset, the state
\* the backend persisted is discarded before the backend is initialized; an
\* unreachable store is never touched.
Create(reset, outcome, impl) ==
    /\ opt \in BackendOptions
    /\ ds = NoDataSource
    /\ persisted' = IF reset /\ outcome # "unreachable" THEN <<>> ELSE persisted
    /\ LET inst == [kind |-> DataSourceOf(opt), options |-> opt, catchup |-> impl,
                    initialized |-> Capabilities]
       IN  IF outcome = "ok"
           THEN /\ ds' = inst
                /\ created' = [called |-> TRUE, ok |-> TRUE, reset |-> reset,
                               value |-> inst]
           ELSE /\ ds' = NoDataSource
                /\ created' = [called |-> TRUE, ok |-> FALSE, reset |-> reset,
                               value |-> NoDataSource]
    /\ UNCHANGED <<opt, reqs>>

\* A node without a query module serves status from a MetricsDataSource,
\* whose impl of CatchupDataSource is empty.
CreateMetrics ==
    /\ opt = NoQueryOptions
    /\ ds = NoDataSource
    /\ ds' = [kind |-> MetricsDataSource, options |-> NoQueryOptions,
              catchup |-> "default", initialized |-> {"StatusDataSource"}]
    /\ UNCHANGED <<opt, persisted, created, reqs>>

\* The node stops: the data source and every future borrowing it are dropped.
Shutdown ==
    /\ ds # NoDataSource
    /\ ds' = NoDataSource
    /\ reqs' = [i \in Slots |-> Idle]
    /\ created' = NothingCreated
    /\ UNCHANGED <<opt, persisted>>

\* UpdateDataSource: a block is decided and its snapshot is appended.
Decide(a, cc) ==
    /\ ds.kind \in {SqlDataSource, FsDataSource}
    /\ Len(persisted) <= MaxHeight
    /\ LET prev == IF Len(persisted) = 0 THEN ZeroBalances
                   ELSE persisted[Len(persisted)].bal
       IN  persisted' = Append(persisted,
                               [bal |-> [prev EXCEPT ![a] = @ + 1], cc |-> cc])
    /\ UNCHANGED <<opt, ds, created, reqs>>

(***************************************************************************)
(* Catch-up requests                                                       *)
(***************************************************************************)
\* A caller calls one of the three operations: the future is created.
Request(i, r) ==
    /\ ds # NoDataSource
    /\ reqs[i].st = "idle"
    /\ reqs' = [reqs EXCEPT ![i] = r]
    /\ UNCHANGED <<opt, persisted, ds, created>>

\* A slip: a failing request poisons the futures pending beside it.
Poll_poison(i) ==
    /\ reqs[i].st = "pending"
    /\ LET out == Output(ds, persisted, reqs[i])
       IN  reqs' = [j \in Slots |->
                      IF j = i \/ (~out.ok /\ reqs[j].st = "pending")
                      THEN [reqs[j] EXCEPT !.st = "done", !.res = out]
                      ELSE reqs[j]]
    /\ UNCHANGED <<opt, persisted, ds, created>>

\* The future is polled to completion: the operation's body runs on &self.
Poll(i) ==
    /\ reqs[i].st = "pending"
    /\ reqs' = [reqs EXCEPT ![i] = [reqs[i] EXCEPT
                                       !.st = "done",
                                       !.res = Output(ds, persisted, reqs[i])]]
    /\ UNCHANGED <<opt, persisted, ds, created>>

\* The caller drops a pending future.
Cancel(i) ==
    /\ reqs[i].st = "pending"
    /\ reqs' = [reqs EXCEPT ![i] = Idle]
    /\ UNCHANGED <<opt, persisted, ds, created>>

\* The caller is done with a resolved future.
Drop(i) ==
    /\ reqs[i].st = "done"
    /\ reqs' = [reqs EXCEPT ![i] = Idle]
    /\ UNCHANGED <<opt, persisted, ds, created>>

ProviderIdle ==
    /\ peers = <<>>
    /\ serves = <<>>
    /\ provider_ = [built |-> FALSE, providers |-> <<>>]
    /\ fetch = [st |-> "none", item |-> "-", next |-> 0, tried |-> <<>>,
                result |-> "none"]

ConfigIdle ==
    /\ config = [none |-> TRUE]
    /\ served = <<>>

Init ==
    /\ opt \in BackendOptions \cup {NoQueryOptions}
    /\ persisted = <<>>
    /\ ds = NoDataSource
    /\ created = NothingCreated
    /\ reqs = [i \in Slots |-> Idle]
    /\ ProviderIdle
    /\ ConfigIdle

\* The node's life cycle, with one caller using the catch-up operations.
Next ==
    \/ \E reset \in BOOLEAN, outcome \in InitOutcomes, impl \in {"default", "override"} :
          Create(reset, outcome, impl) /\ UNCHANGED <<providerVars, configVars>>
    \/ CreateMetrics /\ UNCHANGED <<providerVars, configVars>>
    \/ Shutdown /\ UNCHANGED <<providerVars, configVars>>
    \/ \E a \in Accounts, cc \in ChainConfigs :
          Decide(a, cc) /\ UNCHANGED <<providerVars, configVars>>
    \/ \E r \in Requests : Request(1, r) /\ UNCHANGED <<providerVars, configVars>>
    \/ Poll(1) /\ UNCHANGED <<providerVars, configVars>>
    \/ Cancel(1) /\ UNCHANGED <<providerVars, configVars>>
    \/ Drop(1) /\ UNCHANGED <<providerVars, configVars>>

Spec == Init /\ [][Next]_vars

(***************************************************************************)
(* A running node with several callers of the catch-up operations          *)
(***************************************************************************)
Instance(o, impl) == [kind |-> DataSourceOf(o), options |-> o, catchup |-> impl,
                      initialized |-> Capabilities]

\* The stores of a node that has decided nothing yet, or its first block.
RunningStores ==
    {<<>>} \cup {<<[bal |-> [ZeroBalances EXCEPT !["0xa1"] = 1], cc |-> cc]>> :
                   cc \in ChainConfigs}

InitConcurrent ==
    /\ \/ /\ opt \in BackendOptions
          /\ \E impl \in {"default", "override"} : ds = Instance(opt, impl)
          /\ persisted \in RunningStores
       \/ /\ opt = NoQueryOptions
          /\ ds = [kind |-> MetricsDataSource, options |-> NoQueryOptions,
                   catchup |-> "default", initialized |-> {"StatusDataSource"}]
          /\ persisted = <<>>
    /\ created = NothingCreated
    /\ reqs = [i \in Slots |-> Idle]
    /\ ProviderIdle
    /\ ConfigIdle

NextConcurrent ==
    \/ \E i \in Slots, r \in Requests :
          Request(i, r) /\ UNCHANGED <<providerVars, configVars>>
    \/ \E i \in Slots : Poll(i) /\ UNCHANGED <<providerVars, configVars>>
    \/ \E i \in Slots : Cancel(i) /\ UNCHANGED <<providerVars, configVars>>
    \/ \E i \in Slots : Drop(i) /\ UNCHANGED <<providerVars, configVars>>

SpecConcurrent == InitConcurrent /\ [][NextConcurrent]_vars

(***************************************************************************)
(* Properties: catch-up                                                    *)
(***************************************************************************)
Done(i) == reqs[i].st = "done"
UnknownCommitment(c) == \A cc \in KnownChainConfigs(persisted) : Commit(cc) # c

\* C1: on a data source whose impl of CatchupDataSource overrides nothing
\* (MetricsDataSource is one), every resolved get_account, get_frontier and
\* get_chain_config has failed with the "not supported" error, whatever
\* the arguments and whatever was called before; none has succeeded.
C1_DefaultsUnsupported ==
    \A i \in Slots :
        (Done(i) /\ ~Overrides(ds)) => (~reqs[i].res.ok /\ IsUnsupported(reqs[i].res))

C1_Witness ==
    /\ ds.kind = MetricsDataSource
    /\ Done(1)
    /\ reqs[1].op = "get_account"
    /\ IsUnsupported(reqs[1].res)

\* C5: the two backend options are bound to two different data-source
\* types, sql to sql::DataSource and fs to fs::DataSource; the options type
\* of the bound data source is the backend again; and the instance create
\* returns is of the type bound to the options it was given.
C5_BindingOneToOne ==
    /\ DataSourceOf(SqlOptions) = SqlDataSource
    /\ DataSourceOf(FsOptions) = FsDataSource
    /\ \A o1, o2 \in BackendOptions : DataSourceOf(o1) = DataSourceOf(o2) => o1 = o2
    /\ \A o \in BackendOptions : OptionsOf(DataSourceOf(o)) = o
    /\ created.ok =>
          /\ created.value.kind = (IF opt = SqlOptions THEN SqlDataSource ELSE FsDataSource)
          /\ OptionsOf(created.value.kind) = opt

C5_Witness ==
    /\ created.ok
    /\ opt = FsOptions
    /\ ds.kind = FsDataSource

\* C6: on a backend that overrides catch-up, a get_account(H, V, A) that
\* resolves while H is at most the last decided height returns the balance
\* and root of the snapshot decided at H, and one that resolves while H is
\* beyond the last decided height fails as not found.
C6_AccountAtExactHeight ==
    [][\A i \in Slots :
          (/\ reqs[i].st = "pending"
           /\ reqs'[i].st = "done"
           /\ reqs[i].op = "get_account"
           /\ Overrides(ds))
          => IF reqs[i].h <= LastDecided(persisted)
             THEN reqs'[i].res =
                     Ok([balance |-> persisted[reqs[i].h + 1].bal[reqs[i].a],
                         root |-> persisted[reqs[i].h + 1].bal])
             ELSE IsNotFound(reqs'[i].res)]_vars

C6_Witness ==
    /\ Overrides(ds)
    /\ Done(1)
    /\ reqs[1].op = "get_account"
    /\ reqs[1].res.ok
    /\ reqs[1].h < LastDecided(persisted)
    /\ reqs[1].res.val.root # persisted[Len(persisted)].bal

\* C8: create returns either an instance with every capability initialized,
\* which the node then holds, or an error and no instance; and persisted
\* state is lost only in a call of create with reset = true.
C8_CreateAllOrNothing ==
    /\ [](created.called =>
            IF created.ok
            THEN created.value.initialized = Capabilities /\ ds = created.value
            ELSE created.value = NoDataSource /\ ds = NoDataSource)
    /\ [][Len(persisted') < Len(persisted) =>
            (ds = NoDataSource /\ created'.called /\ created'.reset)]_vars

C8_Witness ==
    /\ created.called
    /\ ~created.ok
    /\ ~created.reset
    /\ Len(persisted) > 0

\* C7 as stated: two resolved get_chain_config calls with the same
\* commitment agree, and a call with an unknown commitment has failed as
\* not found.
C7_Original ==
    /\ \A i, j \in Slots :
          (/\ Done(i) /\ Done(j)
           /\ reqs[i].op = "get_chain_config" /\ reqs[j].op = "get_chain_config"
           /\ reqs[i].c = reqs[j].c)
          => reqs[i].res = reqs[j].res
    /\ \A i \in Slots :
          (Done(i) /\ reqs[i].op = "get_chain_config" /\ UnknownCommitment(reqs[i].c))
          => IsNotFound(reqs[i].res)

\* C7 amended: two resolved get_chain_config calls with the same commitment
\* agree, whatever other catch-up calls ran in between; a call with an
\* unknown commitment has failed as not found on a backend that overrides
\* catch-up and as unsupported on one that does not, whatever height or
\* view the other calls were given.
C7_ChainConfigIdempotent ==
    /\ \A i, j \in Slots :
          (/\ Done(i) /\ Done(j)
           /\ reqs[i].op = "get_chain_config" /\ reqs[j].op = "get_chain_config"
           /\ reqs[i].c = reqs[j].c)
          => reqs[i].res = reqs[j].res
    /\ \A i \in Slots :
          (Done(i) /\ reqs[i].op = "get_chain_config" /\ UnknownCommitment(reqs[i].c))
          => IF Overrides(ds)
             THEN IsNotFound(reqs[i].res)
             ELSE IsUnsupported(reqs[i].res)

C7_Witness ==
    /\ Overrides(ds)
    /\ Len(persisted) > 0
    /\ Done(1) /\ reqs[1].op = "get_chain_config"
    /\ UnknownCommitment(reqs[1].c)
    /\ IsNotFound(reqs[1].res)
    /\ Done(2) /\ reqs[2].op = "get_chain_config"
    /\ reqs[2].c = reqs[1].c

\* C9: a step in which a catch-up future fails or is dropped while pending
\* changes nothing of the node (options, persisted state, data source, the
\* last create), changes no other future, and leaves what every other
\* pending future will resolve to as it was.
C9_CatchupReadOnly ==
    [][\A i \in Slots :
          (/\ reqs[i].st = "pending"
           /\ \/ reqs'[i].st = "idle"
              \/ reqs'[i].st = "done" /\ ~reqs'[i].res.ok)
          => /\ <<opt, persisted, ds, created>>' = <<opt, persisted, ds, created>>
             /\ \A j \in Slots \ {i} :
                   /\ reqs'[j] = reqs[j]
                   /\ reqs[j].st = "pending" =>
                         Output(ds', persisted', reqs'[j]) = Output(ds, persisted, reqs[j])]_vars

C9_Witness ==
    /\ Done(1) /\ ~reqs[1].res.ok
    /\ Done(2) /\ reqs[2].res.ok
    /\ reqs[1].op = reqs[2].op

(***************************************************************************)
(* The fetch provider                                                      *)
(***************************************************************************)
PeerUrls == {"https://p1", "https://p2"}
Items == {"leaf", "payload"}
NoContent == "none"
Contents == {"A", "B"}

RECURSIVE SeqsUpTo(_, _)
SeqsUpTo(S, n) ==
    IF n = 0 THEN {<<>>}
    ELSE SeqsUpTo(S, n - 1) \cup
         {Append(q, x) : q \in {t \in SeqsUpTo(S, n - 1) : Len(t) = n - 1}, x \in S}

PeerLists == SeqsUpTo(PeerUrls, MaxPeers)

\* Provider::default(): no source
Provider_default == <<>>
\* QueryServiceProvider::new(peer, bind_version): a client of that peer
QueryServiceProvider_new(peer) == [url |-> peer]
\* AnyProvider::with_provider: the source is added after those already there
with_provider(p, source) == Append(p, source)

RECURSIVE provider_from(_, _)
provider_from(acc, ps) ==
    IF ps = <<>> THEN acc
    ELSE provider_from(with_provider(acc, QueryServiceProvider_new(Head(ps))), Tail(ps))

RECURSIVE provider_from_reversed(_, _)
provider_from_reversed(acc, ps) ==
    IF ps = <<>> THEN acc
    ELSE provider_from_reversed(<<QueryServiceProvider_new(Head(ps))>> \o acc, Tail(ps))

\* A slip: each peer is put in front of the ones before it.
provider_reversed(ps) == provider_from_reversed(Provider_default, ps)

\* A slip: a provider with no peer configured falls back to a built-in one.
provider_fallbackPeer(ps) ==
    IF ps = <<>>
    THEN <<QueryServiceProvider_new("https://p1")>>
    ELSE provider_from(Provider_default, ps)

\* provider(peers, bind_version): the loop over peers, from Provider::default()
provider(ps) == provider_from(Provider_default, ps)

\* The node builds its provider from the configured peers.
BuildProvider(ps) ==
    /\ ~provider_.built
    /\ peers' = ps
    /\ provider_' = [built |-> TRUE, providers |-> provider(ps)]
    /\ UNCHANGED <<serves, fetch>>

\* A fetch of item through the provider starts.
StartFetch(item) ==
    /\ provider_.built
    /\ fetch.st # "running"
    /\ fetch' = [st |-> "running", item |-> item, next |-> 1, tried |-> <<>>,
                 result |-> NoContent]
    /\ UNCHANGED <<peers, serves, provider_>>

\* The fetch asks the next source, or gives up when none is left.
FetchStep ==
    /\ fetch.st = "running"
    /\ IF fetch.next > Len(provider_.providers)
       THEN fetch' = [fetch EXCEPT !.st = "unavailable"]
       ELSE LET source == provider_.providers[fetch.next].url
                got == serves[source][fetch.item]
            IN  IF got # NoContent
                THEN fetch' = [fetch EXCEPT !.st = "ok", !.result = got,
                                            !.tried = Append(@, source)]
                ELSE fetch' = [fetch EXCEPT !.next = @ + 1,
                                            !.tried = Append(@, source)]
    /\ UNCHANGED <<peers, serves, provider_>>

CatchupIdle ==
    /\ opt = NoQueryOptions
    /\ persisted = <<>>
    /\ ds = NoDataSource
    /\ created = NothingCreated
    /\ reqs = [i \in Slots |-> Idle]

InitProvider ==
    /\ peers = <<>>
    /\ serves \in [PeerUrls -> [Items -> Contents \cup {NoContent}]]
    /\ provider_ = [built |-> FALSE, providers |-> <<>>]
    /\ fetch = [st |-> "none", item |-> "-", next |-> 0, tried |-> <<>>,
                result |-> NoContent]
    /\ CatchupIdle
    /\ ConfigIdle

NextProvider ==
    \/ \E ps \in PeerLists : BuildProvider(ps) /\ UNCHANGED <<catchupVars, configVars>>
    \/ \E item \in Items : StartFetch(item) /\ UNCHANGED <<catchupVars, configVars>>
    \/ FetchStep /\ UNCHANGED <<catchupVars, configVars>>

SpecProvider == InitProvider /\ [][NextProvider]_vars

\* The place in the peer list of the first peer serving the item (0: none).
FirstServing(ps, item) ==
    IF \E k \in 1..Len(ps) : serves[ps[k]][item] # NoContent
    THEN CHOOSE k \in 1..Len(ps) :
            /\ serves[ps[k]][item] # NoContent
            /\ \A m \in 1..(k - 1) : serves[ps[m]][item] = NoContent
    ELSE 0

\* C3: a fetch asks the peers one at a time in the order they were given to
\* provider(); it ends with the content of the first peer in that order that
\* serves the item, having asked exactly the peers up to that one, and ends
\* unavailable only after asking every peer.
C3_FetchInPeerOrder ==
    /\ fetch.st = "running" =>
          /\ Len(fetch.tried) = fetch.next - 1
          /\ Len(fetch.tried) <= Len(peers)
          /\ fetch.tried = SubSeq(peers, 1, Len(fetch.tried))
          /\ \A k \in 1..Len(fetch.tried) : serves[peers[k]][fetch.item] = NoContent
    /\ fetch.st \in {"ok", "unavailable"} =>
          LET k == FirstServing(peers, fetch.item)
          IN  IF k = 0
              THEN fetch.st = "unavailable" /\ fetch.tried = peers
              ELSE /\ fetch.st = "ok"
                   /\ fetch.result = serves[peers[k]][fetch.item]
                   /\ fetch.tried = SubSeq(peers, 1, k)

C3_Witness ==
    /\ peers = <<"https://p1", "https://p2">>
    /\ fetch.st = "ok"
    /\ serves["https://p1"][fetch.item] = NoContent
    /\ fetch.result = serves["https://p2"][fetch.item]
    /\ fetch.tried = peers

\* C4: through a provider built from no peers, a fetch of any item ends
\* unavailable, and without having asked any source.
C4_NoPeersUnavailable ==
    (provider_.built /\ peers = <<>>) =>
        /\ fetch.st # "ok"
        /\ fetch.tried = <<>>
        /\ fetch.st = "running" => fetch.next > Len(provider_.providers)

C4_Witness ==
    /\ provider_.built
    /\ peers = <<>>
    /\ fetch.st = "unavailable"
    /\ \E p \in PeerUrls : serves[p][fetch.item] # NoContent

(***************************************************************************)
(* The public projection of the HotShot configuration                      *)
(***************************************************************************)
KeyIds == {1, 2}

\* BLS keys of a validator: the public key belongs to the private key.
BLSPrivKey(id) == [bls_signing_key |-> id]
BLSPubKey(id) == [bls_ver_key |-> 10 + id]
\* The Schnorr state key pair: a signing key and the verification key derived from it.
StateKeyPair(id) == [sign_key |-> [scalar |-> id], ver_key |-> [point |-> 100 + id]]

PeerConfig(id) == [stake_table_entry |-> [stake_key |-> BLSPubKey(id), stake_amount |-> 1],
                   state_ver_key |-> StateKeyPair(id).ver_key]
Duration(secs) == [secs |-> secs, nanos |-> 0]

\* StateKeyPair::ver_key
ver_key(kp) == kp.ver_key

\* Display of a state verification key: its tagged encoding
to_string(vk) ==
    CASE vk.point = 101 -> "SCHNORR_VER_KEY~101"
      [] vk.point = 102 -> "SCHNORR_VER_KEY~102"

\* What the secret keys would read as if they were written out.
SignKeyString(sk) ==
    CASE sk.scalar = 1 -> "SCHNORR_SIGNING_KEY~1"
      [] sk.scalar = 2 -> "SCHNORR_SIGNING_KEY~2"
PrivKeyString(sk) ==
    CASE sk.bls_signing_key = 1 -> "BLS_SIGNING_KEY~1"
      [] sk.bls_signing_key = 2 -> "BLS_SIGNING_KEY~2"

ValidatorConfigs ==
    {[public_key |-> BLSPubKey(k), private_key |-> BLSPrivKey(k), stake_value |-> st,
      state_key_pair |-> StateKeyPair(sk), is_da |-> da] :
        k \in KeyIds, st \in {1, 2}, sk \in KeyIds, da \in BOOLEAN}

\* A slip: the signing half of the state key pair is the one written out.
From_ValidatorConfig_signKey(v) ==
    [public_key |-> v.public_key,
     stake_value |-> v.stake_value,
     is_da |-> v.is_da,
     state_public_key |-> SignKeyString(v.state_key_pair.sign_key),
     private_key |-> "*****",
     state_key_pair |-> "*****"]

\* impl From<ValidatorConfig<PubKey>> for PublicValidatorConfig
From_ValidatorConfig(v) ==
    LET state_public_key == ver_key(v.state_key_pair)
    IN  [public_key |-> v.public_key,
         stake_value |-> v.stake_value,
         is_da |-> v.is_da,
         state_public_key |-> to_string(state_public_key),
         private_key |-> "*****",
         state_key_pair |-> "*****"]

CarriedFields ==
    {"execution_type", "start_threshold", "num_nodes_with_stake",
     "num_nodes_without_stake", "known_nodes_with_stake", "known_da_nodes",
     "known_nodes_without_stake", "da_staked_committee_size", "da_non_staked_committee_size",
     "fixed_leader_for_gpuvid", "next_view_timeout", "view_sync_timeout",
     "timeout_ratio", "round_start_delay", "start_delay",
     "num_bootstrap", "builder_timeout", "data_request_delay",
     "builder_urls", "start_proposing_view", "stop_proposing_view",
     "start_voting_view", "stop_voting_view"}

HotShotFields == CarriedFields \cup {"my_own_validator_config"}

\* The values a field other than my_own_validator_config takes in the model.
BaseValue ==
    [execution_type |-> "Continuous",
     start_threshold |-> <<1, 1>>,
     num_nodes_with_stake |-> 1,
     num_nodes_without_stake |-> 0,
     known_nodes_with_stake |-> <<PeerConfig(1)>>,
     known_da_nodes |-> <<>>,
     known_nodes_without_stake |-> <<>>,
     da_staked_committee_size |-> 1,
     da_non_staked_committee_size |-> 0,
     fixed_leader_for_gpuvid |-> 0,
     next_view_timeout |-> 10,
     view_sync_timeout |-> Duration(1),
     timeout_ratio |-> <<11, 10>>,
     round_start_delay |-> 0,
     start_delay |-> 0,
     num_bootstrap |-> 1,
     builder_timeout |-> Duration(1),
     data_request_delay |-> Duration(1),
     builder_urls |-> <<"https://b1">>,
     start_proposing_view |-> 0,
     stop_proposing_view |-> 0,
     start_voting_view |-> 0,
     stop_voting_view |-> 0]

OtherValue ==
    [execution_type |-> "Incremental",
     start_threshold |-> <<2, 3>>,
     num_nodes_with_stake |-> 5,
     num_nodes_without_stake |-> 2,
     known_nodes_with_stake |-> <<PeerConfig(1), PeerConfig(2)>>,
     known_da_nodes |-> <<PeerConfig(2)>>,
     known_nodes_without_stake |-> <<BLSPubKey(2)>>,
     da_staked_committee_size |-> 3,
     da_non_staked_committee_size |-> 1,
     fixed_leader_for_gpuvid |-> 1,
     next_view_timeout |-> 20,
     view_sync_timeout |-> Duration(2),
     timeout_ratio |-> <<3, 2>>,
     round_start_delay |-> 1,
     start_delay |-> 1,
     num_bootstrap |-> 2,
     builder_timeout |-> Duration(2),
     data_request_delay |-> Duration(2),
     builder_urls |-> <<"https://b1", "https://b2">>,
     start_proposing_view |-> 1,
     stop_proposing_view |-> 1,
     start_voting_view |-> 1,
     stop_voting_view |-> 1]

RECURSIVE FieldSetsUpTo(_)
FieldSetsUpTo(n) ==
    IF n = 0 THEN {{}}
    ELSE LET smaller == FieldSetsUpTo(n - 1)
         IN  smaller \cup {S \cup {f} : S \in smaller, f \in CarriedFields}

\* The configuration whose fields in S hold the other value.
HotShotConfig(S, vc) ==
    [f \in HotShotFields |->
        IF f = "my_own_validator_config" THEN vc
        ELSE IF f \in S THEN OtherValue[f] ELSE BaseValue[f]]

HotShotConfigs ==
    {HotShotConfig(S, vc) : S \in FieldSetsUpTo(MaxChanged), vc \in ValidatorConfigs}

\* A slip: one view bound is read where its neighbour was meant.
From_HotShotConfig_crossed(v) ==
    [execution_type |-> v.execution_type,
     start_threshold |-> v.start_threshold,
     num_nodes_with_stake |-> v.num_nodes_with_stake,
     num_nodes_without_stake |-> v.num_nodes_without_stake,
     known_nodes_with_stake |-> v.known_nodes_with_stake,
     known_da_nodes |-> v.known_da_nodes,
     known_nodes_without_stake |-> v.known_nodes_without_stake,
     my_own_validator_config |-> From_ValidatorConfig(v.my_own_validator_config),
     da_staked_committee_size |-> v.da_staked_committee_size,
     da_non_staked_committee_size |-> v.da_non_staked_committee_size,
     fixed_leader_for_gpuvid |-> v.fixed_leader_for_gpuvid,
     next_view_timeout |-> v.next_view_timeout,
     view_sync_timeout |-> v.view_sync_timeout,
     timeout_ratio |-> v.timeout_ratio,
     round_start_delay |-> v.round_start_delay,
     start_delay |-> v.start_delay,
     num_bootstrap |-> v.num_bootstrap,
     builder_timeout |-> v.builder_timeout,
     data_request_delay |-> v.data_request_delay,
     builder_urls |-> v.builder_urls,
     start_proposing_view |-> v.start_proposing_view,
     stop_proposing_view |-> v.stop_proposing_view,
     start_voting_view |-> v.start_voting_view,
     stop_voting_view |-> v.start_voting_view]

\* impl From<HotShotConfig<PubKey>> for PublicHotShotConfig
From_HotShotConfig(v) ==
    [execution_type |-> v.execution_type,
     start_threshold |-> v.start_threshold,
     num_nodes_with_stake |-> v.num_nodes_with_stake,
     num_nodes_without_stake |-> v.num_nodes_without_stake,
     known_nodes_with_stake |-> v.known_nodes_with_stake,
     known_da_nodes |-> v.known_da_nodes,
     known_nodes_without_stake |-> v.known_nodes_without_stake,
     my_own_validator_config |-> From_ValidatorConfig(v.my_own_validator_config),
     da_staked_committee_size |-> v.da_staked_committee_size,
     da_non_staked_committee_size |-> v.da_non_staked_committee_size,
     fixed_leader_for_gpuvid |-> v.fixed_leader_for_gpuvid,
     next_view_timeout |-> v.next_view_timeout,
     view_sync_timeout |-> v.view_sync_timeout,
     timeout_ratio |-> v.timeout_ratio,
     round_start_delay |-> v.round_start_delay,
     start_delay |-> v.start_delay,
     num_bootstrap |-> v.num_bootstrap,
     builder_timeout |-> v.builder_timeout,
     data_request_delay |-> v.data_request_delay,
     builder_urls |-> v.builder_urls,
     start_proposing_view |-> v.start_proposing_view,
     stop_proposing_view |-> v.stop_proposing_view,
     start_voting_view |-> v.start_voting_view,
     stop_voting_view |-> v.stop_voting_view]

\* HotShotConfigDataSource::get_config: the projection of the node's configuration
GetConfig ==
    /\ Len(served) < MaxServed
    /\ served' = Append(served, From_HotShotConfig(config))
    /\ UNCHANGED config

InitConfig ==
    /\ config \in HotShotConfigs
    /\ served = <<>>
    /\ CatchupIdle
    /\ ProviderIdle

NextConfig ==
    GetConfig /\ UNCHANGED <<catchupVars, providerVars>>

SpecConfig == InitConfig /\ [][NextConfig]_vars

\* The secrets of a validator configuration, written out.
SecretStrings(v) ==
    {PrivKeyString(v.private_key), SignKeyString(v.state_key_pair.sign_key)}

\* C2: in every projection handed out, the validator part has exactly the
\* six public fields, private_key and state_key_pair are the marker "*****",
\* state_public_key is the written-out verification key of the source's state
\* key pair, and no text field is the written-out private or signing key.
C2_NoSecretInProjection ==
    \A k \in 1..Len(served) :
        LET pv == served[k].my_own_validator_config
            v == config.my_own_validator_config
        IN  /\ DOMAIN pv = {"public_key", "stake_value", "is_da", "private_key",
                            "state_public_key", "state_key_pair"}
            /\ pv.private_key = "*****"
            /\ pv.state_key_pair = "*****"
            /\ pv.state_public_key = to_string(v.state_key_pair.ver_key)
            /\ {pv.private_key, pv.state_public_key, pv.state_key_pair}
                  \cap SecretStrings(v) = {}

C2_Witness ==
    /\ Len(served) > 0
    /\ config.my_own_validator_config.state_key_pair = StateKeyPair(2)
    /\ config.my_own_validator_config.private_key = BLSPrivKey(1)
    /\ served[1].my_own_validator_config.state_public_key = "SCHNORR_VER_KEY~102"

\* C10: in every projection handed out, each of the 23 fields other than
\* my_own_validator_config holds the value the configuration holds;
\* my_own_validator_config is the projection of the configuration's validator
\* part, with public_key, stake_value and is_da as in the source; and two
\* projections of the same configuration are equal.
C10_FieldsCarriedThrough ==
    /\ Cardinality(CarriedFields) = 23
    /\ \A k \in 1..Len(served) :
          LET pub == served[k]
              v == config.my_own_validator_config
          IN  /\ DOMAIN pub = HotShotFields
              /\ \A f \in CarriedFields : pub[f] = config[f]
              /\ pub.my_own_validator_config = From_ValidatorConfig(v)
              /\ pub.my_own_validator_config.public_key = v.public_key
              /\ pub.my_own_validator_config.stake_value = v.stake_value
              /\ pub.my_own_validator_config.is_da = v.is_da
    /\ \A j, k \in 1..Len(served) : served[j] = served[k]

C10_Witness ==
    /\ Len(served) = 2
    /\ config.stop_voting_view # config.start_voting_view
    /\ served[2].stop_voting_view = config.stop_voting_view
    /\ config.my_own_validator_config.is_da

====
